---- MODULE Spec2Model ----
(***************************************************************************)
(* A model of clouddrift/ragged.py: ragged arrays (a flat array plus a     *)
(* row-size vector), the row-wise apply engine and its executor, the       *)
(* chunker, the segmenter and the dataset subsetter.                       *)
(*                                                                         *)
(* An n-dimensional array (n = 1 or 2) is a record [shape, data] with the  *)
(* data in C order; a one-dimensional array or Python list is also written *)
(* as a plain sequence where the code only ever uses it as one.  Python    *)
(* indices are 0-based, TLA+ sequences 1-based: offsets are kept 0-based   *)
(* as in the code and shifted where a sequence is indexed.                 *)
(***************************************************************************)
EXTENDS Integers, Sequences, FiniteSets, TLC

VARIABLES
    pc,       \* position of the call being made ("validate", "submit", ...)
    args,     \* the arguments of the call
    futures,  \* the executor's tasks, in submission order
    res,      \* apply_ragged's list of retrieved results
    ret,      \* the outcome of the call: nothing yet, a value or an exception
    overtook  \* history: some task has finished before an earlier-submitted one

vars == <<pc, args, futures, res, ret, overtook>>

(***************************************************************************)
(* Bounds of the model.                                                    *)
(***************************************************************************)
MaxRows == 2
MaxRowSize == 2
MaxSelected == 2
MaxOtherExtent == 2
MaxLen == 3
MaxValue == 2
MaxTol == 3
MaxChunkInput == 6
MaxLength == 3
MaxGap == 2
MaxObs == 4

(***************************************************************************)
(* Outcomes of a call.                                                     *)
(***************************************************************************)
NoRet == [tag |-> "none"]
Return(v) == [tag |-> "ok", val |-> v]
\* An exception raised by the library itself, and one raised by func in task k.
Raise(e) == [tag |-> "raise", exc |-> e, task |-> 0]
RaiseFrom(k) == [tag |-> "raise", exc |-> "FuncError", task |-> k]

(***************************************************************************)
(* Sequences as Python lists and one-dimensional arrays.                   *)
(***************************************************************************)
RECURSIVE np_sum(_)
np_sum(s) == IF s = <<>> THEN 0 ELSE Head(s) + np_sum(Tail(s))

np_cumsum(s) == [i \in 1..Len(s) |-> np_sum(SubSeq(s, 1, i))]

RECURSIVE Concat(_)
Concat(ss) == IF ss = <<>> THEN <<>> ELSE Head(ss) \o Concat(Tail(ss))

Min(a, b) == IF a < b THEN a ELSE b
Max(a, b) == IF a > b THEN a ELSE b

\* x[st:en] for 0 <= st, 0 <= en: the bounds are clipped to the length.
PySlice(x, st, en) == SubSeq(x, Min(st, Len(x)) + 1, Min(en, Len(x)))

\* All sequences over S of length at most n.
SeqsUpTo(S, n) == UNION {[1..k -> S] : k \in 0..n}

(***************************************************************************)
(* n-dimensional arrays, n = 1 or 2.                                       *)
(***************************************************************************)
Array1(s) == [shape |-> <<Len(s)>>, data |-> s]
NDim(a) == Len(a.shape)
\* len(a): the extent along the leading axis.
PyLen(a) == a.shape[1]

\* a[st:en] taken along `axis`, as np.split slices it (bounds clipped).
SliceAxis(a, axis, st, en) ==
    LET n == a.shape[axis + 1]
        s == Min(st, n)
        w == Max(Min(en, n) - s, 0)
    IN  IF NDim(a) = 1
        THEN [shape |-> <<w>>, data |-> SubSeq(a.data, s + 1, s + w)]
        ELSE IF axis = 0
        THEN [shape |-> <<w, a.shape[2]>>,
              data |-> SubSeq(a.data, s * a.shape[2] + 1, (s + w) * a.shape[2])]
        ELSE [shape |-> <<a.shape[1], w>>,
              data |-> [k \in 1..(a.shape[1] * w) |->
                          a.data[((k - 1) \div w) * a.shape[2] + s + ((k - 1) % w) + 1]]]

\* np.split(ary, indices, axis): the sub-arrays between consecutive division
\* points 0, indices..., shape[axis].
np_split(ary, indices, axis) ==
    LET div_points == <<0>> \o indices \o <<ary.shape[axis + 1]>>
    IN  [i \in 1..(Len(indices) + 1) |->
            SliceAxis(ary, axis, div_points[i], div_points[i + 1])]

\* The shape of a with its extent along `axis` replaced by n.
WithExtent(shape, axis, n) == [shape EXCEPT ![axis + 1] = n]

\* np.concatenate(arrs, axis) can be carried out: at least one array, all of
\* the same number of dimensions, `axis` one of them, and equal extents along
\* every other axis.
CanConcatenate(arrs, axis) ==
    /\ Len(arrs) > 0
    /\ axis < NDim(arrs[1])
    /\ \A i \in 1..Len(arrs) :
          /\ NDim(arrs[i]) = NDim(arrs[1])
          /\ WithExtent(arrs[i].shape, axis, 0) = WithExtent(arrs[1].shape, axis, 0)

\* The data of the concatenation along axis 1 of two-dimensional arrays with
\* n0 rows each: row by row, the rows of each array in turn.
ConcatCols(arrs, n0) ==
    Concat([r \in 1..n0 |->
              Concat([i \in 1..Len(arrs) |->
                        SubSeq(arrs[i].data, (r - 1) * arrs[i].shape[2] + 1,
                               r * arrs[i].shape[2])])])

np_concatenate(arrs, axis) ==
    IF ~CanConcatenate(arrs, axis) THEN Raise("ValueError")
    ELSE LET total == np_sum([i \in 1..Len(arrs) |-> arrs[i].shape[axis + 1]])
         IN  Return([shape |-> WithExtent(arrs[1].shape, axis, total),
                     data |-> IF axis = 0
                              THEN Concat([i \in 1..Len(arrs) |-> arrs[i].data])
                              ELSE ConcatCols(arrs, arrs[1].shape[1])])

(***************************************************************************)
(* rowsize_to_index and unpack.                                            *)
(***************************************************************************)
\* A variant without the leading zero.
RowsizeToIndexNoZero(rowsize) == np_cumsum(rowsize)

rowsize_to_index(rowsize) == np_cumsum(<<0>> \o rowsize)

\* The row selector: None, one int, or a list of ints.
NoRows == [kind |-> "none", idx |-> <<>>]
OneRow(i) == [kind |-> "int", idx |-> <<i>>]
RowList(s) == [kind |-> "list", idx |-> s]

unpack(ragged_array, rowsize, rows, axis) ==
    LET indices == rowsize_to_index(rowsize)
        rws == IF rows.kind = "none"
               THEN [i \in 1..(Len(indices) - 1) |-> i - 1]
               ELSE rows.idx
        unpacked == np_split(ragged_array, SubSeq(indices, 2, Len(indices) - 1), axis)
    IN  [i \in 1..Len(rws) |-> unpacked[rws[i] + 1]]

(***************************************************************************)
(* The row-wise user functions handed to apply_ragged.  A value returned   *)
(* by one is an ndarray, a scalar (not iterable) or a tuple of those.      *)
(***************************************************************************)
NdArray(a) == [py |-> "ndarray", shape |-> a.shape, data |-> a.data]
Scalar(v) == [py |-> "scalar", shape |-> <<>>, data |-> <<v>>]
Tuple(items) == [py |-> "tuple", items |-> items]

\* A function is named, with the keyword argument min_len of prune's lambdas.
Func(name) == [name |-> name, min_len |-> 0]
FuncMinLen(name, m) == [name |-> name, min_len |-> m]
FuncKinds == {Func("transform"), Func("reduce"), Func("tuple_transform_reduce"),
              Func("tuple_reduce")}

\* A transform keeps the shape of the row it is given; a reduction returns
\* one scalar.
Transform(row) == NdArray([shape |-> row.shape,
                           data |-> [k \in 1..Len(row.data) |-> row.data[k] + 100]])
Reduce(row) == Scalar(np_sum(row.data))
EmptyArray == NdArray([shape |-> <<0>>, data |-> <<>>])

\* func(*x): x is the list of the rows of the input arrays at one position.
func(f, x) ==
    CASE f.name = "transform" -> Transform(x[1])
      [] f.name = "reduce" -> Reduce(x[1])
      [] f.name = "tuple_transform_reduce" -> Tuple(<<Transform(x[1]), Reduce(x[1])>>)
      [] f.name = "tuple_reduce" -> Tuple(<<Reduce(x[1]), Reduce(x[Len(x)])>>)
      \* prune, line 313: x if len(x) >= min_len else np.empty(0)
      [] f.name = "keep_long_row" ->
            IF PyLen(x[1]) >= f.min_len THEN NdArray(x[1]) ELSE EmptyArray
      \* prune, line 319: x if x >= min_len else np.empty(0)
      [] f.name = "keep_large_size" ->
            IF x[1].data[1] >= f.min_len THEN NdArray(x[1]) ELSE EmptyArray
      \* predicates of subset's criteria: lambda arr: arr == 1,
      \* lambda arr: arr == arr.sum() and lambda arr: np.any(arr == 1)
      [] f.name = "is_one" ->
            NdArray([shape |-> x[1].shape,
                     data |-> [k \in 1..Len(x[1].data) |-> x[1].data[k] = 1]])
      [] f.name = "is_row_total" ->
            NdArray([shape |-> x[1].shape,
                     data |-> [k \in 1..Len(x[1].data) |->
                                 x[1].data[k] = np_sum(x[1].data)]])
      [] f.name = "any_one" ->
            Scalar(\E k \in 1..Len(x[1].data) : x[1].data[k] = 1)

(***************************************************************************)
(* apply_ragged, step by step.                                             *)
(***************************************************************************)
\* The check of rowsize against every input array.
RowsizeMatches(arrays, rowsize, axis) ==
    \A i \in 1..Len(arrays) : np_sum(rowsize) = arrays[i].shape[axis + 1]

\* The argument lists of the tasks, one per selected row: the rows of every
\* array at the same position.
TaskArgs(arrays, rowsize, rows, axis) ==
    LET unpacked == [i \in 1..Len(arrays) |-> unpack(arrays[i], rowsize, rows, axis)]
    IN  [j \in 1..Len(unpacked[1]) |-> [i \in 1..Len(arrays) |-> unpacked[i][j]]]

\* isinstance(item, Iterable), and the wrapping of what is not.
IsIterable(item) == item.py # "scalar"
Wrap(item) == IF IsIterable(item) THEN item
              ELSE [py |-> "list", shape |-> <<1>>, data |-> item.data]

\* len() of a wrapped result.
ResultLen(item) == IF item.py = "tuple" THEN Len(item.items) ELSE item.shape[1]

\* One output: along `axis` when the first row's value is longer than one
\* element, along axis 0 otherwise.
ConcatenateOutput(result, axis) ==
    IF ResultLen(result[1]) > 1
    THEN np_concatenate(result, axis)
    ELSE np_concatenate(result, 0)

\* Lines 127-160: the outputs of the rows put together.
Reassemble(results, axis) ==
    LET r == [k \in 1..Len(results) |-> Wrap(results[k])]
    IN  IF r = <<>> THEN Raise("IndexError")
        ELSE IF r[1].py = "tuple"
        THEN LET outputs == [i \in 1..Len(r[1].items) |->
                               ConcatenateOutput([k \in 1..Len(r) |-> Wrap(r[k].items[i])],
                                                 axis)]
             IN  IF \E i \in 1..Len(outputs) : outputs[i].tag = "raise"
                 THEN Raise("ValueError")
                 ELSE Return([i \in 1..Len(outputs) |-> outputs[i].val])
        ELSE ConcatenateOutput(r, axis)

\* apply_ragged as one call: the tasks' results in submission order (lines
\* 124-125), put together.
apply_ragged(f, arrays, rowsize, rows, axis) ==
    IF ~RowsizeMatches(arrays, rowsize, axis) THEN Raise("ValueError")
    ELSE LET iter == TaskArgs(arrays, rowsize, rows, axis)
         IN  Reassemble([k \in 1..Len(iter) |-> func(f, iter[k])], axis)

(***************************************************************************)
(* prune, ragged_to_regular, segment.                                      *)
(***************************************************************************)
\* np.ones_like(rowsize)
np_ones_like(s) == [i \in 1..Len(s) |-> 1]

\* A variant that filters the rows and returns the row sizes as they were.
PruneKeepingSizes(ragged, rowsize, min_rowsize) ==
    LET pruned == apply_ragged(FuncMinLen("keep_long_row", min_rowsize),
                               <<Array1(ragged)>>, rowsize, NoRows, 0)
    IN  IF pruned.tag = "raise" THEN pruned
        ELSE Return(<<pruned.val.data, rowsize>>)

prune(ragged, rowsize, min_rowsize) ==
    LET pruned == apply_ragged(FuncMinLen("keep_long_row", min_rowsize),
                               <<Array1(ragged)>>, rowsize, NoRows, 0)
        sizes == apply_ragged(FuncMinLen("keep_large_size", min_rowsize),
                              <<Array1(rowsize)>>, np_ones_like(rowsize), NoRows, 0)
    IN  IF pruned.tag = "raise" THEN pruned
        ELSE IF sizes.tag = "raise" THEN sizes
        ELSE Return(<<pruned.val.data, sizes.val.data>>)

\* max() of a non-empty list.
PyMax(s) == CHOOSE m \in {s[i] : i \in 1..Len(s)} : \A i \in 1..Len(s) : s[i] <= m

\* res[n, :k] = v for a row of res of length `width`: v fills the first k
\* places when it has k elements, one element is repeated k times
\* (broadcast), and any other length cannot be assigned.
CanAssign(k, v) == Len(v) = k \/ Len(v) = 1
AssignedRow(width, k, v, fill_value) ==
    [j \in 1..width |-> IF j > k THEN fill_value
                        ELSE IF Len(v) = k THEN v[j] ELSE v[1]]

ragged_to_regular(ragged, rowsize, fill_value) ==
    IF rowsize = <<>> THEN Raise("ValueError")
    ELSE LET width == PyMax(rowsize)
             unpacked == unpack(Array1(ragged), rowsize, NoRows, 0)
         IN  IF \E n \in 1..Len(rowsize) : ~CanAssign(rowsize[n], unpacked[n].data)
             THEN Raise("ValueError")
             ELSE Return([shape |-> <<Len(rowsize), width>>,
                          data |-> Concat([n \in 1..Len(rowsize) |->
                                             AssignedRow(width, rowsize[n],
                                                         unpacked[n].data, fill_value)])])

\* Lines 419-423 for a fill value that is a number: the entries that differ
\* from fill_value, row after row, and their number in each row.
regular_to_ragged(array, fill_value) ==
    LET rows == array.shape[1]
        width == array.shape[2]
        Row(n) == SubSeq(array.data, (n - 1) * width + 1, n * width)
        Valid(row) == Concat([j \in 1..Len(row) |->
                                IF row[j] # fill_value THEN <<row[j]>> ELSE <<>>])
    IN  Return(<<Concat([n \in 1..rows |-> Valid(Row(n))]),
                 [n \in 1..rows |-> Len(Valid(Row(n)))]>>)

np_diff(x) == [i \in 1..(Len(x) - 1) |-> x[i + 1] - x[i]]

\* np.where(b)[0]: the 0-based positions of the true entries, ascending.
RECURSIVE WhereFrom(_, _)
WhereFrom(b, i) ==
    IF i > Len(b) THEN <<>>
    ELSE (IF b[i] THEN <<i - 1>> ELSE <<>>) \o WhereFrom(b, i + 1)
np_where(b) == WhereFrom(b, 1)

\* A segmenter that also breaks where the difference equals the tolerance.
SegmentSizesInclusive(x, tolerance) ==
    LET d == np_diff(x)
        w == np_where([i \in 1..Len(d) |->
                         IF tolerance >= 0 THEN d[i] >= tolerance ELSE d[i] <= tolerance])
        segment_sizes == np_diff(<<0>> \o [i \in 1..Len(w) |-> w[i] + 1])
    IN  segment_sizes \o <<Len(x) - np_sum(segment_sizes)>>

\* Lines 529-538: segment without rowsize.
SegmentSizes(x, tolerance) ==
    LET positive_tol == tolerance >= 0
        d == np_diff(x)
        exceeds_tolerance == [i \in 1..Len(d) |->
                                IF positive_tol THEN d[i] > tolerance
                                ELSE d[i] < tolerance]
        w == np_where(exceeds_tolerance)
        segment_sizes == np_diff(<<0>> \o [i \in 1..Len(w) |-> w[i] + 1])
    IN  segment_sizes \o <<Len(x) - np_sum(segment_sizes)>>

\* The rowsize argument of segment: None or a vector.
NoRowsize == [kind |-> "none", v |-> <<>>]
Rowsize(v) == [kind |-> "given", v |-> v]

\* A segmenter that checks rowsize and then segments x as a whole.
SegmentAcrossRows(x, tolerance, rowsize) ==
    IF rowsize.kind = "given" /\ np_sum(rowsize.v) # Len(x) THEN Raise("ValueError")
    ELSE Return(SegmentSizes(x, tolerance))

\* Lines 531-548.  np.concatenate of an empty list raises ValueError.
segment(x, tolerance, rowsize) ==
    IF rowsize.kind = "none" THEN Return(SegmentSizes(x, tolerance))
    ELSE IF np_sum(rowsize.v) # Len(x) THEN Raise("ValueError")
    ELSE LET start(r) == np_sum(SubSeq(rowsize.v, 1, r - 1))
             segment_sizes == [r \in 1..Len(rowsize.v) |->
                                 SegmentSizes(PySlice(x, start(r), start(r) + rowsize.v[r]),
                                              tolerance)]
         IN  IF segment_sizes = <<>> THEN Raise("ValueError")
             ELSE Return(Concat(segment_sizes))

(***************************************************************************)
(* The executor and apply_ragged's use of it.  A future is queued when     *)
(* submitted, running once a worker has called func, and done when the     *)
(* call has returned or raised.  Workers take and finish tasks in any      *)
(* order.                                                                  *)
(***************************************************************************)
Queued == [state |-> "queued", calls |-> 0, taken |-> FALSE, outcome |-> NoRet]

Iter == TaskArgs(args.arrays, args.rowsize, args.rows, args.axis)

\* Lines 111-121: the check of rowsize, then the rows are unpacked.
Validate ==
    /\ pc = "validate"
    /\ IF RowsizeMatches(args.arrays, args.rowsize, args.axis)
       THEN pc' = "submit" /\ ret' = ret
       ELSE pc' = "done" /\ ret' = Raise("ValueError")
    /\ UNCHANGED <<args, futures, res, overtook>>

\* Line 124: one executor.submit per row, in row order.
Submit ==
    /\ pc = "submit"
    /\ IF Len(futures) < Len(Iter)
       THEN futures' = Append(futures, Queued) /\ pc' = pc
       ELSE futures' = futures /\ pc' = "collect"
    /\ UNCHANGED <<args, res, ret, overtook>>

\* A worker takes task k and calls func.
Start(k) ==
    /\ futures[k].state = "queued"
    /\ futures' = [futures EXCEPT ![k].state = "running", ![k].calls = @ + 1]
    /\ UNCHANGED <<pc, args, res, ret, overtook>>

\* The call of func in task k returns or raises.
Finish(k) ==
    /\ futures[k].state = "running"
    /\ futures' = [futures EXCEPT
                     ![k].state = "done",
                     ![k].outcome = IF k \in args.raising THEN RaiseFrom(k)
                                    ELSE Return(func(args.func, Iter[k]))]
    /\ overtook' = (overtook \/ \E j \in 1..(k - 1) : futures[j].state # "done")
    /\ UNCHANGED <<pc, args, res, ret>>

\* A collector that takes results as they complete instead of in submission
\* order.
AwaitedAsCompleted(futs, n) ==
    {k \in 1..Len(futs) : futs[k].state = "done" /\ ~futs[k].taken}

\* Line 125: the futures whose result() is called next, given the futures and
\* the number of results retrieved so far: the next one in submission order.
Awaited(futs, n) == {n + 1}

\* A collector that drops the result of a task that raised and goes on.
RetrieveSkippingFailures ==
    /\ pc = "collect"
    /\ Len(res) < Len(futures)
    /\ \E k \in {Len(res) + 1} :
          /\ futures[k].state = "done"
          /\ futures' = [futures EXCEPT ![k].taken = TRUE]
          /\ res' = Append(res, IF futures[k].outcome.tag = "raise"
                                THEN EmptyArray
                                ELSE futures[k].outcome.val)
    /\ UNCHANGED <<pc, args, ret, overtook>>

\* Line 125: r.result() returns the value of the awaited future once it is
\* done, or raises its exception, which ends the call.
Retrieve ==
    /\ pc = "collect"
    /\ Len(res) < Len(futures)
    /\ \E k \in Awaited(futures, Len(res)) :
          /\ futures[k].state = "done"
          /\ ~futures[k].taken
          /\ futures' = [futures EXCEPT ![k].taken = TRUE]
          /\ IF futures[k].outcome.tag = "raise"
             THEN pc' = "done" /\ ret' = futures[k].outcome /\ res' = res
             ELSE pc' = pc /\ ret' = ret /\ res' = Append(res, futures[k].outcome.val)
    /\ UNCHANGED <<args, overtook>>

\* A variant that puts together the results retrieved so far without
\* waiting for the rest.
AssembleWithoutWaiting ==
    /\ pc = "collect"
    /\ pc' = "done"
    /\ ret' = Reassemble(res, args.axis)
    /\ UNCHANGED <<args, futures, res, overtook>>

\* Lines 127-160: every result retrieved, the output is put together.
Assemble ==
    /\ pc = "collect"
    /\ Len(res) = Len(futures)
    /\ pc' = "done"
    /\ ret' = Reassemble(res, args.axis)
    /\ UNCHANGED <<args, futures, res, overtook>>

\* The calls of apply_ragged of the executor's specification: one
\* one-dimensional array 1..n, whose length matches sum(rowsize) or misses
\* it by one, with every row selector and every set of tasks whose func raises.
ArrayLengths(rowsize) == {n \in {np_sum(rowsize) - 1, np_sum(rowsize), np_sum(rowsize) + 1} : n >= 0}
IsInjective(s) == \A i, j \in 1..Len(s) : s[i] = s[j] => i = j
\* Every selector of rows of a ragged array of n rows, and those that name
\* no row twice.
RowSelectors(n) ==
    {NoRows} \cup {OneRow(i) : i \in 0..(n - 1)}
             \cup {RowList(s) : s \in SeqsUpTo(0..(n - 1), MaxSelected)}
DistinctRowSelectors(n) == {rows \in RowSelectors(n) : IsInjective(rows.idx)}
NumSelected(rowsize, rows) == IF rows.kind = "none" THEN Len(rowsize) ELSE Len(rows.idx)

InitApply ==
    /\ \E f \in {Func("transform")}, rowsize \in SeqsUpTo(0..MaxRowSize, MaxRows) :
         \E n \in ArrayLengths(rowsize), rows \in DistinctRowSelectors(Len(rowsize)) :
           \E raising \in SUBSET (1..NumSelected(rowsize, rows)) :
              args = [op |-> "apply_ragged", func |-> f,
                      arrays |-> <<Array1([i \in 1..n |-> i])>>,
                      rowsize |-> rowsize, rows |-> rows, axis |-> 0,
                      raising |-> raising]
    /\ pc = "validate"
    /\ futures = <<>>
    /\ res = <<>>
    /\ ret = NoRet
    /\ overtook = FALSE

NextApply ==
    \/ Validate
    \/ Submit
    \/ \E k \in 1..Len(futures) : Start(k)
    \/ \E k \in 1..Len(futures) : Finish(k)
    \/ Retrieve
    \/ Assemble

SpecApply == InitApply /\ [][NextApply]_vars

(***************************************************************************)
(* Calls of the functions that pair a flat array with a row-size vector,   *)
(* each made in one step.                                                  *)
(***************************************************************************)
Idle == futures = <<>> /\ res = <<>> /\ overtook = FALSE

CallApplyRagged ==
    /\ pc = "call" /\ args.op = "apply_ragged"
    /\ ret' = apply_ragged(args.func, args.arrays, args.rowsize, args.rows, args.axis)
    /\ pc' = "done"
    /\ UNCHANGED <<args, futures, res, overtook>>

CallUnpack ==
    /\ pc = "call" /\ args.op = "unpack"
    /\ ret' = Return(unpack(args.array, args.rowsize, args.rows, args.axis))
    /\ pc' = "done"
    /\ UNCHANGED <<args, futures, res, overtook>>

CallRaggedToRegular ==
    /\ pc = "call" /\ args.op = "ragged_to_regular"
    /\ ret' = ragged_to_regular(args.ragged, args.rowsize, args.fill_value)
    /\ pc' = "done"
    /\ UNCHANGED <<args, futures, res, overtook>>

CallPrune ==
    /\ pc = "call" /\ args.op = "prune"
    /\ ret' = prune(args.ragged, args.rowsize, args.min_rowsize)
    /\ pc' = "done"
    /\ UNCHANGED <<args, futures, res, overtook>>

CallSegment ==
    /\ pc = "call" /\ args.op = "segment"
    /\ ret' = segment(args.x, args.tolerance, args.rowsize)
    /\ pc' = "done"
    /\ UNCHANGED <<args, futures, res, overtook>>

\* The array of the given shape holding 1, 2, ... in C order.
RECURSIVE Product(_)
Product(s) == IF s = <<>> THEN 1 ELSE Head(s) * Product(Tail(s))
Arange(shape) == [shape |-> shape, data |-> [i \in 1..Product(shape) |-> i]]

RowSizes == SeqsUpTo(0..MaxRowSize, MaxRows)

\* The input arrays of a call of apply_ragged whose ragged axis should have
\* extent sum(rowsize): one-dimensional, alone or in a list of two, and
\* two-dimensional with the ragged axis first or second; extents that match
\* sum(rowsize) and extents that miss it by one.
ApplyArrays(rowsize) ==
    LET good == np_sum(rowsize)
    IN  {[arrays |-> <<Arange(<<n>>)>>, axis |-> 0] : n \in ArrayLengths(rowsize)}
        \cup {[arrays |-> <<Arange(<<good>>), Arange(<<n>>)>>, axis |-> 0] :
                 n \in ArrayLengths(rowsize)}
        \cup {[arrays |-> <<Arange(<<n, c>>)>>, axis |-> 0] :
                 n \in {good, good + 1}, c \in 1..MaxOtherExtent}
        \cup {[arrays |-> <<Arange(<<c, n>>)>>, axis |-> 1] :
                 n \in {good, good + 1}, c \in 1..MaxOtherExtent}

ApplyCalls(rowsize) ==
    UNION {{[op |-> "apply_ragged", func |-> f, arrays |-> a.arrays,
             rowsize |-> rowsize, rows |-> rows, axis |-> a.axis] :
               f \in FuncKinds, a \in ApplyArrays(rowsize)} :
           rows \in DistinctRowSelectors(Len(rowsize))}

UnpackCalls(rowsize) ==
    {[op |-> "unpack", array |-> Arange(<<n>>), rowsize |-> rowsize,
      rows |-> rows, axis |-> 0] :
        n \in ArrayLengths(rowsize), rows \in RowSelectors(Len(rowsize))}

RaggedToRegularCalls(rowsize) ==
    {[op |-> "ragged_to_regular", ragged |-> Arange(<<n>>).data,
      rowsize |-> rowsize, fill_value |-> fill_value] :
        n \in ArrayLengths(rowsize), fill_value \in {0 - 1, 1}}

PruneCalls(rowsize) ==
    {[op |-> "prune", ragged |-> Arange(<<n>>).data, rowsize |-> rowsize,
      min_rowsize |-> m] :
        n \in ArrayLengths(rowsize), m \in 0..(MaxRowSize + 1)}

SegmentRowsizeCalls(rowsize) ==
    {[op |-> "segment", x |-> Arange(<<n>>).data, tolerance |-> t,
      rowsize |-> Rowsize(rowsize)] :
        n \in ArrayLengths(rowsize), t \in {0 - 1, 0, 1}}

RowsizeToIndexCalls(rowsize) == {[op |-> "rowsize_to_index", rowsize |-> rowsize]}

InitRagged ==
    /\ \E rowsize \in RowSizes :
          args \in RowsizeToIndexCalls(rowsize) \cup ApplyCalls(rowsize) \cup UnpackCalls(rowsize)
                    \cup RaggedToRegularCalls(rowsize) \cup PruneCalls(rowsize)
                    \cup SegmentRowsizeCalls(rowsize)
    /\ pc = "call"
    /\ ret = NoRet
    /\ Idle

CallRowsizeToIndex ==
    /\ pc = "call" /\ args.op = "rowsize_to_index"
    /\ ret' = Return(rowsize_to_index(args.rowsize))
    /\ pc' = "done"
    /\ UNCHANGED <<args, futures, res, overtook>>

\* The round trip: the regular array that ragged_to_regular returned is
\* converted back with the same fill value.
ConvertBack ==
    /\ pc = "done" /\ args.op = "ragged_to_regular" /\ ret.tag = "ok"
    /\ args' = [op |-> "regular_to_ragged", array |-> ret.val,
                fill_value |-> args.fill_value, ragged |-> args.ragged,
                rowsize |-> args.rowsize]
    /\ ret' = NoRet
    /\ pc' = "call"
    /\ UNCHANGED <<futures, res, overtook>>

CallRegularToRagged ==
    /\ pc = "call" /\ args.op = "regular_to_ragged"
    /\ ret' = regular_to_ragged(args.array, args.fill_value)
    /\ pc' = "done"
    /\ UNCHANGED <<args, futures, res, overtook>>

NextRagged ==
    \/ CallRowsizeToIndex
    \/ ConvertBack
    \/ CallRegularToRagged
    \/ CallApplyRagged
    \/ CallUnpack
    \/ CallRaggedToRegular
    \/ CallPrune
    \/ CallSegment

SpecRagged == InitRagged /\ [][NextRagged]_vars

(***************************************************************************)
(* The segmenter called on sequences with gaps of both signs.  The values  *)
(* of x are even, so that an odd tolerance falls between two possible      *)
(* differences, as 0.5 does in the documented examples.                    *)
(***************************************************************************)
\* Every row-size vector of at most MaxRows rows that sums to n.
RowSizesOf(n) == {r \in SeqsUpTo(0..n, MaxRows) : np_sum(r) = n}

Tolerances == (0 - MaxTol)..MaxTol
NotFed == [set |-> FALSE, tolerance |-> 0]

InitSegment ==
    /\ \E x \in SeqsUpTo({2 * v : v \in 0..MaxValue}, MaxLen), t \in Tolerances :
         \E rowsize \in {NoRowsize} \cup {Rowsize(r) : r \in RowSizesOf(Len(x))} :
            args = [op |-> "segment", x |-> x, tolerance |-> t, rowsize |-> rowsize,
                    first |-> NotFed]
    /\ pc = "call"
    /\ ret = NoRet
    /\ Idle

\* The documented idiom: the result of a call without rowsize is passed as
\* the rowsize of a second call with another tolerance.
SegmentAgain ==
    /\ pc = "done" /\ args.op = "segment"
    /\ args.rowsize.kind = "none" /\ ret.tag = "ok"
    /\ \E t \in Tolerances :
          args' = [args EXCEPT !.tolerance = t, !.rowsize = Rowsize(ret.val),
                               !.first = [set |-> TRUE, tolerance |-> args.tolerance]]
    /\ pc' = "call"
    /\ ret' = NoRet
    /\ UNCHANGED <<futures, res, overtook>>

NextSegment ==
    \/ CallSegment
    \/ SegmentAgain

SpecSegment == InitSegment /\ [][NextSegment]_vars

(***************************************************************************)
(* chunk.                                                                  *)
(***************************************************************************)
\* a // b of Python: the floor of the quotient, b # 0.
FloorDiv(a, b) == IF b > 0 THEN a \div b ELSE (0 - a) \div (0 - b)

\* x[st:en] with negative bounds counted from the end.
PySliceAny(x, st, en) ==
    LET norm(i) == IF i < 0 THEN Max(i + Len(x), 0) ELSE i
    IN  PySlice(x, norm(st), norm(en))

\* A loop that starts each chunk where the last one ended.
RECURSIVE ChunkRowsNoOverlap(_, _, _, _, _)
ChunkRowsNoOverlap(x, length, overlap, start, n) ==
    IF n = 0 THEN [ok |-> TRUE, rows |-> <<>>]
    ELSE LET row == PySliceAny(x, start, start + length)
             rest == ChunkRowsNoOverlap(x, length, overlap, start + length, n - 1)
         IN  [ok |-> CanAssign(length, row) /\ rest.ok,
              rows |-> <<AssignedRow(length, length, row, 0)>> \o rest.rows]

\* Lines 264-267: the rows taken by the loop from `start` on, n rows to go;
\* a slice that cannot be assigned to a row of res ends the loop in an error.
RECURSIVE ChunkRows(_, _, _, _, _)
ChunkRows(x, length, overlap, start, n) ==
    IF n = 0 THEN [ok |-> TRUE, rows |-> <<>>]
    ELSE LET end == start + length
             row == PySliceAny(x, start, end)
         IN  IF ~CanAssign(length, row) THEN [ok |-> FALSE, rows |-> <<>>]
             ELSE LET rest == ChunkRows(x, length, overlap, end - overlap, n - 1)
                  IN  [ok |-> rest.ok,
                       rows |-> <<AssignedRow(length, length, row, 0)>> \o rest.rows]

NumChunks(x, length, overlap) ==
    IF Len(x) >= length THEN FloorDiv(Len(x) - length, length - overlap) + 1 ELSE 0

chunk(x, length, overlap, align) ==
    IF Len(x) >= length /\ length - overlap = 0 THEN Raise("ZeroDivisionError")
    ELSE LET num_chunks == NumChunks(x, length, overlap)
             remainder == Len(x) - num_chunks * length + (num_chunks - 1) * overlap
             start == CASE align = "start" -> 0
                        [] align = "middle" -> FloorDiv(remainder, 2)
                        [] align = "end" -> remainder
                        [] OTHER -> 0
         IN  IF num_chunks < 0 \/ length < 0 THEN Raise("ValueError")
             ELSE IF align \notin {"start", "middle", "end"} THEN Raise("ValueError")
             ELSE LET rows == ChunkRows(x, length, overlap, start, num_chunks)
                  IN  IF ~rows.ok THEN Raise("ValueError")
                      ELSE Return([shape |-> <<num_chunks, length>>,
                                   data |-> Concat(rows.rows)])

CallChunk ==
    /\ pc = "call" /\ args.op = "chunk"
    /\ ret' = chunk(args.x, args.length, args.overlap, args.align)
    /\ pc' = "done"
    /\ UNCHANGED <<args, futures, res, overtook>>

InitChunk ==
    /\ \E n \in 0..MaxChunkInput, length \in (0 - 1)..MaxLength,
          overlap \in (0 - MaxGap)..MaxLength,
          align \in {"start", "middle", "end", "centre"} :
            args = [op |-> "chunk", x |-> Arange(<<n>>).data, length |-> length,
                    overlap |-> overlap, align |-> align]
    /\ pc = "call"
    /\ ret = NoRet
    /\ Idle

NextChunk == CallChunk

SpecChunk == InitChunk /\ [][NextChunk]_vars

(***************************************************************************)
(* The dataset subsetter.  A ragged dataset holds the row variables id and *)
(* rowsize over the dimension "rows" and the observation variable temp     *)
(* over the dimension "obs"; each dimension is also addressable by name,   *)
(* as its index 0, 1, ...                                                  *)
(***************************************************************************)
\* A criterion: a (min, max) tuple, a list of values, a callable, or a scalar.
Range(lo, hi) == [kind |-> "tuple", lo |-> lo, hi |-> hi, values |-> {}, f |-> Func("none")]
AnyOf(values) == [kind |-> "list", lo |-> 0, hi |-> 0, values |-> values, f |-> Func("none")]
Equals(v) == [kind |-> "scalar", lo |-> v, hi |-> v, values |-> {}, f |-> Func("none")]
Callable(name) == [kind |-> "callable", lo |-> 0, hi |-> 0, values |-> {}, f |-> Func(name)]

\* An item of the criteria dictionary.
Item(key, criterion) == [key |-> key, criterion |-> criterion]

\* ds[key] with its dimension, for a key among ds.variables and ds.dims.
DsKeys == {"id", "rowsize", "temp", "rows", "obs"}
DsVar(ds, key) ==
    CASE key = "id" -> [dim |-> "rows", values |-> ds.id]
      [] key = "rowsize" -> [dim |-> "rows", values |-> ds.rowsize]
      [] key = "temp" -> [dim |-> "obs", values |-> ds.temp]
      [] key = "rows" -> [dim |-> "rows", values |-> [i \in 1..Len(ds.id) |-> i - 1]]
      [] key = "obs" -> [dim |-> "obs", values |-> [i \in 1..Len(ds.temp) |-> i - 1]]

\* Lines 997-1002: the mask a callable returned must be as long as the
\* variable; an error of the callable's evaluation is the call's error, and
\* a scalar cannot be given the one dimension of the DataArray of line 997.
CallableMask(var, mask) ==
    IF mask.tag = "raise" THEN mask
    ELSE IF mask.val.shape = <<>> THEN Raise("ValueError")
    ELSE IF Len(var) # Len(mask.val.data) THEN Raise("ValueError")
    ELSE Return(mask.val.data)

\* Lines 977-1005: the mask of one variable under one criterion.  A callable
\* is called on the whole variable when the variable is as long as rowsize,
\* and row by row through apply_ragged otherwise.
mask_var(var, criterion, rowsize) ==
    CASE criterion.kind = "tuple" ->
            Return([i \in 1..Len(var) |-> var[i] >= criterion.lo /\ var[i] <= criterion.hi])
      [] criterion.kind = "list" ->
            Return([i \in 1..Len(var) |-> var[i] \in criterion.values])
      [] criterion.kind = "callable" ->
            CallableMask(var,
                IF Len(var) = Len(rowsize)
                THEN Return(func(criterion.f, <<Array1(var)>>))
                ELSE apply_ragged(criterion.f, <<Array1(var)>>, rowsize, NoRows, 0))
      [] OTHER -> Return([i \in 1..Len(var) |-> var[i] = criterion.lo])

\* Lines 738-751: the mask goes to the dimension of its variable.
MaskOfDim(m, dim) ==
    IF m.tag = "raise" THEN m ELSE [tag |-> "ok", dim |-> dim, mask |-> m.val]

\* Lines 726-753: the mask of one key of the criteria and its dimension.
CriterionMask(ds, item) ==
    IF item.key \notin DsKeys THEN Raise("ValueError")
    ELSE MaskOfDim(mask_var(DsVar(ds, item.key).values, item.criterion, ds.rowsize),
                   DsVar(ds, item.key).dim)

\* Lines 718-753: both masks start all true and each key's mask is ANDed into
\* the mask of its dimension; the first key that fails, in the order of the
\* dictionary, ends the call.
AndMasks(each, rows, obs) ==
    LET failing == {n \in 1..Len(each) : each[n].tag = "raise"}
        MaskOf(dim, size) ==
            [i \in 1..size |-> \A n \in 1..Len(each) : each[n].dim = dim => each[n].mask[i]]
    IN  IF failing # {}
        THEN each[CHOOSE n \in failing : \A k \in failing : n <= k]
        ELSE [tag |-> "ok", mask_row |-> MaskOf("rows", rows), mask_obs |-> MaskOf("obs", obs)]

FoldCriteria(ds, criteria) ==
    AndMasks([n \in 1..Len(criteria) |-> CriterionMask(ds, criteria[n])],
             Len(ds.id), Len(ds.temp))

\* The row (1-based) of observation j (1-based), by the offsets traj_idx.
RowOfObs(rowsize, j) ==
    LET traj_idx == rowsize_to_index(rowsize)
    IN  CHOOSE i \in 1..Len(rowsize) : traj_idx[i] < j /\ j <= traj_idx[i + 1]

\* Lines 756-758: the observations of the rows filtered out are masked.
DropObsOfDroppedRows(mask_row, mask_obs, rowsize) ==
    [j \in 1..Len(mask_obs) |-> mask_obs[j] /\ mask_row[RowOfObs(rowsize, j)]]

\* np.repeat(ids, rowsize)[mask]
np_repeat(vals, counts) == Concat([i \in 1..Len(vals) |-> [k \in 1..counts[i] |-> vals[i]]])
Select(vals, mask) == Concat([i \in 1..Len(vals) |-> IF mask[i] THEN <<vals[i]>> ELSE <<>>])
IdsWithMaskObs(ds, mask_obs) == Select(np_repeat(ds.id, ds.rowsize), mask_obs)

\* A variant that keeps the rows whatever is left of their observations.
KeepRowsWithoutObs(ds, mask_row, mask_obs) == mask_row

\* Lines 761-766: the rows left without any observation are masked.
DropRowsWithoutObs(ds, mask_row, mask_obs) ==
    LET ids_with_mask_obs == IdsWithMaskObs(ds, mask_obs)
    IN  [i \in 1..Len(mask_row) |->
            mask_row[i] /\ \E j \in 1..Len(ids_with_mask_obs) : ids_with_mask_obs[j] = ds.id[i]]

\* A variant that leaves the observation mask as the criteria made it.
KeepFullRowsNoWiden(mask_row, mask_obs, rowsize) == mask_obs

\* Lines 769-771: with full_rows, every observation of a kept row is kept.
KeepFullRows(mask_row, mask_obs, rowsize) ==
    [j \in 1..Len(mask_obs) |-> mask_obs[j] \/ mask_row[RowOfObs(rowsize, j)]]

\* np.unique(a, return_index=True, return_counts=True): the sorted distinct
\* values, the 0-based position of the first occurrence of each, its count.
np_unique(a) ==
    LET values == SortSeq(
                    CHOOSE u \in [1..Cardinality({a[i] : i \in 1..Len(a)}) -> {a[i] : i \in 1..Len(a)}] :
                        {u[k] : k \in DOMAIN u} = {a[i] : i \in 1..Len(a)},
                    LAMBDA v, w : v < w)
    IN  [values |-> values,
         index |-> [k \in 1..Len(values) |->
                      (CHOOSE i \in 1..Len(a) :
                          a[i] = values[k] /\ \A j \in 1..(i - 1) : a[j] # values[k]) - 1],
         counts |-> [k \in 1..Len(values) |->
                       Cardinality({i \in 1..Len(a) : a[i] = values[k]})]]

\* np.argsort(a) for distinct entries: the 0-based positions, by entry.
np_argsort(a) ==
    LET order == SortSeq([i \in 1..Len(a) |-> i], LAMBDA i, j : a[i] < a[j])
    IN  [k \in 1..Len(a) |-> order[k] - 1]

\* A variant that leaves the counts in the order of the sorted identifiers.
RecountRowsizeByIdentifier(ids_with_mask_obs) == np_unique(ids_with_mask_obs).counts

\* Lines 782-785: the row sizes of the subset, counted from the identifiers
\* of the observations kept, in the order of their first occurrence.
RecountRowsize(ids_with_mask_obs) ==
    LET u == np_unique(ids_with_mask_obs)
        by_first == np_argsort(u.index)
    IN  [k \in 1..Len(by_first) |-> u.counts[by_first[k] + 1]]

EmptyDataset == [empty |-> TRUE, id |-> <<>>, rowsize |-> <<>>, temp |-> <<>>]

\* A variant that keeps the row sizes of the selected rows as they were.
MaterializeKeepingRowsize(ds, mask_row, mask_obs) ==
    IF \A i \in 1..Len(mask_row) : ~mask_row[i] THEN Return(EmptyDataset)
    ELSE Return([empty |-> FALSE,
                 id |-> Select(ds.id, mask_row),
                 rowsize |-> Select(ds.rowsize, mask_row),
                 temp |-> Select(ds.temp, mask_obs)])

\* Lines 776-786: the empty dataset, or the selection along both dimensions
\* with its rowsize rewritten (values of another length cannot be assigned).
Materialize(ds, mask_row, mask_obs) ==
    IF \A i \in 1..Len(mask_row) : ~mask_row[i] THEN Return(EmptyDataset)
    ELSE LET rowsize == RecountRowsize(IdsWithMaskObs(ds, mask_obs))
         IN  IF Len(rowsize) # Len(Select(ds.id, mask_row)) THEN Raise("ValueError")
             ELSE Return([empty |-> FALSE,
                          id |-> Select(ds.id, mask_row),
                          rowsize |-> rowsize,
                          temp |-> Select(ds.temp, mask_obs)])

\* Lines 755-786: from the masks of the criteria to the result.
SubsetByMasks(ds, masks, full_rows) ==
    IF masks.tag = "raise" THEN masks
    ELSE LET obs_of_rows == DropObsOfDroppedRows(masks.mask_row, masks.mask_obs, ds.rowsize)
             rows_kept == DropRowsWithoutObs(ds, masks.mask_row, obs_of_rows)
             obs_kept == IF full_rows THEN KeepFullRows(rows_kept, obs_of_rows, ds.rowsize)
                         ELSE obs_of_rows
         IN  Materialize(ds, rows_kept, obs_kept)

subset(ds, criteria, full_rows) ==
    SubsetByMasks(ds, FoldCriteria(ds, criteria), full_rows)

CallSubset ==
    /\ pc = "call" /\ args.op = "subset"
    /\ ret' = subset(args.ds, args.criteria, args.full_rows)
    /\ pc' = "done"
    /\ UNCHANGED <<args, futures, res, overtook>>

\* The ragged datasets of at most MaxRows rows and MaxObs observations:
\* rowsize sums to the number of observations, the identifiers are 1..R in
\* any order, and temp is 0 or 1 at each observation.
IdOrders(n) == {s \in [1..n -> 1..n] : IsInjective(s)}
Datasets(rowsize) ==
    {[id |-> id, rowsize |-> rowsize, temp |-> temp] :
        id \in IdOrders(Len(rowsize)), temp \in [1..np_sum(rowsize) -> {0, 1}]}
DatasetRowSizes == {r \in SeqsUpTo(0..MaxObs, MaxRows) : np_sum(r) <= MaxObs}

\* The criteria dictionaries, as lists of items in insertion order.
CriteriaChoices ==
    { <<>>,
      <<Item("temp", Equals(1))>>,
      <<Item("temp", Callable("is_row_total"))>>,
      <<Item("temp", Callable("any_one"))>>,
      <<Item("id", AnyOf({1, 3}))>>,
      <<Item("rows", Callable("is_one"))>>,
      <<Item("temp", Range(1, 1)), Item("id", AnyOf({2, 3}))>>,
      <<Item("id", AnyOf({2, 3})), Item("temp", Range(1, 1))>>,
      <<Item("rowsize", Range(2, MaxObs)), Item("temp", AnyOf({0}))>>,
      <<Item("temp", Equals(1)), Item("salinity", Equals(0))>> }

InitSubset ==
    /\ \E rowsize \in DatasetRowSizes, criteria \in CriteriaChoices, full_rows \in BOOLEAN :
          \E ds \in Datasets(rowsize) :
          args = [op |-> "subset", ds |-> ds, criteria |-> criteria,
                  full_rows |-> full_rows]
    /\ pc = "call"
    /\ ret = NoRet
    /\ Idle

NextSubset == CallSubset

SpecSubset == InitSubset /\ [][NextSubset]_vars

(***************************************************************************)
(* Claims about the executor's use.                                        *)
(***************************************************************************)
\* The rows selected, 0-based, in the order of selection.
SelectedRows ==
    IF args.rows.kind = "none" THEN [i \in 1..Len(args.rowsize) |-> i - 1]
    ELSE args.rows.idx

\* What the transform returns for the k-th selected row, read off the flat
\* array by the row's offsets.
ExpectedBlock(k) ==
    LET r == SelectedRows[k]
        offset == np_sum(SubSeq(args.rowsize, 1, r))
    IN  [i \in 1..args.rowsize[r + 1] |-> args.arrays[1].data[offset + i] + 100]

Least(S) == CHOOSE k \in S : \A j \in S : k <= j

\* C1: whatever the order in which the tasks start and finish, the results
\* are retrieved in row order: the k-th retrieved result is func applied to
\* the k-th selected row, and the returned array is these blocks in that order.
C1_RowOrder ==
    /\ pc \in {"collect", "done"} =>
          \A k \in 1..Len(res) : res[k].data = ExpectedBlock(k)
    /\ (pc = "done" /\ ret.tag = "ok") =>
          /\ Len(res) = Len(SelectedRows)
          /\ ret.val.data = Concat([k \in 1..Len(SelectedRows) |-> ExpectedBlock(k)])

\* A call returned its output although a later task had finished before an
\* earlier one, with two rows of different sizes selected.
C1_Witness ==
    /\ pc = "done" /\ ret.tag = "ok" /\ overtook
    /\ Len(res) >= 2
    /\ Len(res[1].data) # Len(res[2].data)
    /\ args.rows.kind = "list"

\* C4: when the task of at least one row raises, the call ends by raising the
\* error of the first failing row in submission order and returns nothing;
\* every row is submitted once and func is called at most once for it.
C4_FirstErrorPropagates ==
    /\ (pc = "done" /\ RowsizeMatches(args.arrays, args.rowsize, args.axis)
          /\ args.raising # {}) =>
          ret = RaiseFrom(Least(args.raising))
    /\ Len(futures) <= Len(SelectedRows)
    /\ \A k \in 1..Len(futures) : futures[k].calls <= 1

\* The call raised the first failing row's error although a later failing row
\* had already finished when the first one had not.
C4_Witness ==
    /\ pc = "done" /\ ret.tag = "raise" /\ ret.exc = "FuncError"
    /\ Cardinality(args.raising) >= 2
    /\ overtook
    /\ \E k \in args.raising : k > ret.task /\ futures[k].state = "done"

\* A rowsize that does not sum to the array's extent is rejected before any
\* task is submitted, so before func is called for any row.
ValueErrorBeforeAnyTask ==
    ~RowsizeMatches(args.arrays, args.rowsize, args.axis) =>
        /\ futures = <<>>
        /\ pc = "done" => ret = Raise("ValueError")

(***************************************************************************)
(* Claims about apply_ragged's output and the row-size check.              *)
(***************************************************************************)
\* The k-th selected row of the first input array, cut out along the ragged
\* axis by the row's offsets.
SelectedRow(k) ==
    LET r == SelectedRows[k]
        offset == np_sum(SubSeq(args.rowsize, 1, r))
    IN  SliceAxis(args.arrays[1], args.axis, offset, offset + args.rowsize[r + 1])

SelectedSizes == [k \in 1..Len(SelectedRows) |-> args.rowsize[SelectedRows[k] + 1]]

\* The output of a row-length-preserving func: the rows' results joined along
\* the ragged axis.
IsConcatenationAlongAxis(out) ==
    LET blocks == [k \in 1..Len(SelectedRows) |-> Transform(SelectedRow(k))]
        joined == np_concatenate(blocks, args.axis)
    IN  /\ out.shape = WithExtent(args.arrays[1].shape, args.axis, np_sum(SelectedSizes))
        /\ joined.tag = "ok"
        /\ out.shape = joined.val.shape
        /\ out.data = joined.val.data

\* The output of a reduction: one element per selected row, along axis 0.
IsOnePerRow(out) ==
    /\ out.shape = <<Len(SelectedRows)>>
    /\ out.data = [k \in 1..Len(SelectedRows) |-> np_sum(SelectedRow(k).data)]

\* C2: with a rowsize that matches and at least one row selected, a
\* row-length-preserving func gives the concatenation of the rows' results
\* along `axis`, a reduction gives one element per selected row along axis 0,
\* and each position of a tuple-returning func is put together by the same rule.
C2_ReassemblyByAxis ==
    (/\ pc = "done" /\ args.op = "apply_ragged"
     /\ RowsizeMatches(args.arrays, args.rowsize, args.axis)
     /\ Len(SelectedRows) > 0) =>
        /\ ret.tag = "ok"
        /\ CASE args.func.name = "transform" -> IsConcatenationAlongAxis(ret.val)
             [] args.func.name = "reduce" -> IsOnePerRow(ret.val)
             [] args.func.name = "tuple_transform_reduce" ->
                   IsConcatenationAlongAxis(ret.val[1]) /\ IsOnePerRow(ret.val[2])
             [] args.func.name = "tuple_reduce" ->
                   IsOnePerRow(ret.val[1]) /\ IsOnePerRow(ret.val[2])

\* The same, for the inputs on which the code's choice of axis is right: the
\* ragged axis is axis 0, or the first row's result has more than one entry
\* along axis 0.
C2_HoldsOffLeadingExtentOne ==
    (/\ pc = "done" /\ args.op = "apply_ragged"
     /\ RowsizeMatches(args.arrays, args.rowsize, args.axis)
     /\ Len(SelectedRows) > 0
     /\ (args.axis = 0 \/ args.arrays[1].shape[1] > 1)) =>
        C2_ReassemblyByAxis

\* The array's extent along the ragged axis differs from sum(rowsize).
SizeMismatch ==
    CASE args.op = "apply_ragged" -> ~RowsizeMatches(args.arrays, args.rowsize, args.axis)
      [] args.op = "unpack" -> np_sum(args.rowsize) # args.array.shape[args.axis + 1]
      [] args.op \in {"ragged_to_regular", "prune"} -> np_sum(args.rowsize) # Len(args.ragged)
      [] args.op = "segment" ->
            args.rowsize.kind = "given" /\ np_sum(args.rowsize.v) # Len(args.x)
      [] OTHER -> FALSE

\* C3: every operation that pairs a flat array with a row-size vector ends in
\* a value-mismatch error, and returns nothing, when sum(rowsize) differs from
\* the array's length.
C3_MismatchRejected ==
    (pc = "done" /\ SizeMismatch) => (ret.tag = "raise" /\ ret.exc = "ValueError")

\* The same for the operations that check: apply_ragged, prune and segment.
C3_CheckedOperationsReject ==
    (pc = "done" /\ SizeMismatch /\ args.op \in {"apply_ragged", "prune", "segment"}) =>
        (ret.tag = "raise" /\ ret.exc = "ValueError")

(***************************************************************************)
(* Claims about segment.                                                   *)
(***************************************************************************)
\* There is a gap between x[i] and x[i+1] (1-based) for tolerance t.
Gap(x, i, t) == IF t >= 0 THEN x[i + 1] - x[i] > t ELSE x[i + 1] - x[i] < t

\* The positions at which a row-size vector cuts its array: the number of
\* elements before each row but the first.
Boundaries(sizes) == {np_sum(SubSeq(sizes, 1, k)) : k \in 1..(Len(sizes) - 1)}

\* C7: without rowsize, segment breaks x exactly at the gaps, where a gap is a
\* difference above a tolerance >= 0 or below a tolerance < 0; the result has
\* one entry per run, each run is non-empty, and the entries sum to len(x).
C7_BreaksAtGaps ==
    (pc = "done" /\ args.op = "segment" /\ args.rowsize.kind = "none") =>
        LET gaps == {i \in 1..(Len(args.x) - 1) : Gap(args.x, i, args.tolerance)}
        IN  /\ ret.tag = "ok"
            /\ Len(ret.val) = Cardinality(gaps) + 1
            /\ np_sum(ret.val) = Len(args.x)
            /\ Boundaries(ret.val) = gaps
            /\ Len(args.x) > 0 => \A k \in 1..Len(ret.val) : ret.val[k] >= 1

\* A call with tolerance 0 on a sequence holding an equal pair and a rise.
C7_Witness ==
    /\ pc = "done" /\ args.op = "segment" /\ args.rowsize.kind = "none"
    /\ args.tolerance = 0
    /\ Len(ret.val) = 2
    /\ \E i \in 1..(Len(args.x) - 1) : args.x[i + 1] = args.x[i]

\* The runs of one row, each a maximal stretch without a gap, as sizes.
RowBreaks(row, t) == {i \in 1..(Len(row) - 1) : Gap(row, i, t)}

\* C8: with a rowsize that sums to len(x), the result is the rows' own
\* segmentations one after the other: it sums to len(x), every row boundary
\* is a boundary of the result, and a position inside a row is a boundary
\* exactly when there is a gap there.
C8_SegmentsWithinRows ==
    (/\ pc = "done" /\ args.op = "segment" /\ args.rowsize.kind = "given"
     /\ np_sum(args.rowsize.v) = Len(args.x)) =>
        LET rs == args.rowsize.v
            offset(r) == np_sum(SubSeq(rs, 1, r - 1))
            row(r) == SubSeq(args.x, offset(r) + 1, offset(r) + rs[r])
            inner == UNION {{offset(r) + i : i \in RowBreaks(row(r), args.tolerance)} :
                            r \in 1..Len(rs)}
        IN  /\ ret.tag = "ok"
            /\ np_sum(ret.val) = Len(args.x)
            /\ Len(ret.val) = np_sum([r \in 1..Len(rs) |->
                                 Cardinality(RowBreaks(row(r), args.tolerance)) + 1])
            /\ Boundaries(ret.val) = Boundaries(rs) \cup inner

\* The same for a rowsize of at least one row.
C8_HoldsWithRows ==
    (args.op = "segment" /\ args.rowsize.kind = "given" /\ args.rowsize.v # <<>>) =>
        C8_SegmentsWithinRows

\* The two tolerances of the idiom: the one >= 0 and the one < 0.
IdiomCall ==
    /\ pc = "done" /\ args.op = "segment" /\ args.first.set
    /\ Len(args.x) > 0
    /\ (args.first.tolerance < 0) # (args.tolerance < 0)

\* C9: segmenting with one tolerance and passing the result as the rowsize
\* of a call with a tolerance of the other sign breaks a non-empty x exactly
\* where the difference is above the one or below the other, and the result
\* is that of the two calls made in the other order.
C9_BothDirections ==
    IdiomCall =>
        LET p == Max(args.first.tolerance, args.tolerance)
            n == Min(args.first.tolerance, args.tolerance)
            x == args.x
            swapped == segment(x, args.first.tolerance,
                               Rowsize(segment(x, args.tolerance, NoRowsize).val))
        IN  /\ ret.tag = "ok"
            /\ Boundaries(ret.val) =
                  {i \in 1..(Len(x) - 1) : x[i + 1] - x[i] > p \/ x[i + 1] - x[i] < n}
            /\ \A k \in 1..Len(ret.val) : ret.val[k] >= 1
            /\ np_sum(ret.val) = Len(x)
            /\ swapped.tag = "ok" /\ ret.val = swapped.val

\* The idiom on a sequence that rises by more than the one tolerance and
\* falls by more than the other, the negative tolerance first.
C9_Witness ==
    /\ IdiomCall
    /\ args.first.tolerance < 0
    /\ \E i \in 1..(Len(args.x) - 1) : args.x[i + 1] - args.x[i] > args.tolerance
    /\ \E i \in 1..(Len(args.x) - 1) : args.x[i + 1] - args.x[i] < args.first.tolerance
    /\ Len(ret.val) = 3

(***************************************************************************)
(* Claims about chunk.                                                     *)
(***************************************************************************)
ChunkPrecondition ==
    /\ args.op = "chunk"
    /\ args.length > 0 /\ args.overlap < args.length
    /\ args.align \in {"start", "middle", "end"}

\* floor((len(x) - length) / (length - overlap)) + 1, or 0 for a short x.
ExpectedChunks ==
    IF Len(args.x) >= args.length
    THEN (CHOOSE q \in 0..Len(args.x) :
             /\ q * (args.length - args.overlap) <= Len(args.x) - args.length
             /\ (q + 1) * (args.length - args.overlap) > Len(args.x) - args.length) + 1
    ELSE 0

ExpectedRemainder ==
    Len(args.x) - ExpectedChunks * args.length + (ExpectedChunks - 1) * args.overlap

\* The start of the first window.
FirstStart ==
    CASE args.align = "start" -> 0
      [] args.align = "middle" ->
            CHOOSE h \in 0..Len(args.x) : 2 * h \in {ExpectedRemainder, ExpectedRemainder - 1}
      [] args.align = "end" -> ExpectedRemainder

\* C10: for length > 0, overlap < length and a valid align, chunk returns
\* num_chunks rows of `length` elements, row n being the window of x that
\* starts at s0 + n * (length - overlap), and every window lies inside x.
C10_ChunkWindows ==
    (pc = "done" /\ ChunkPrecondition) =>
        /\ ret.tag = "ok"
        /\ ret.val.shape = <<ExpectedChunks, args.length>>
        /\ \A n \in 0..(ExpectedChunks - 1) :
              LET w == FirstStart + n * (args.length - args.overlap)
              IN  /\ 0 <= w
                  /\ w + args.length <= Len(args.x)
                  /\ SubSeq(ret.val.data, n * args.length + 1, (n + 1) * args.length)
                       = SubSeq(args.x, w + 1, w + args.length)

\* Two chunks with a gap between them, centred in x with elements left over
\* on both sides.
C10_Witness ==
    /\ pc = "done" /\ ChunkPrecondition
    /\ args.align = "middle" /\ args.overlap < 0
    /\ ret.tag = "ok" /\ ret.val.shape[1] = 2
    /\ ExpectedRemainder >= 2

(***************************************************************************)
(* Claims about the dataset subsetter.                                     *)
(***************************************************************************)
SubsetReturned == pc = "done" /\ args.op = "subset" /\ ret.tag = "ok"

\* The size the row identified by id has in the dataset ds.
OriginalRowsize(ds, id) == ds.rowsize[CHOOSE i \in 1..Len(ds.id) : ds.id[i] = id]

\* C5: for a dataset whose rowsize sums to its number of observations and
\* whose identifiers are distinct, the result of subset (any criteria, either
\* full_rows) has a rowsize that sums to its number of observations, one
\* rowsize entry per row, and identifiers that are distinct and are
\* identifiers of the original dataset.
C5_SubsetKeepsRaggedStructure ==
    (SubsetReturned /\ np_sum(args.ds.rowsize) = Len(args.ds.temp) /\ IsInjective(args.ds.id))
        => /\ np_sum(ret.val.rowsize) = Len(ret.val.temp)
           /\ Len(ret.val.rowsize) = Len(ret.val.id)
           /\ IsInjective(ret.val.id)
           /\ \A k \in 1..Len(ret.val.id) : \E i \in 1..Len(args.ds.id) : ret.val.id[k] = args.ds.id[i]

\* Two rows survive, one of them with fewer observations than it had.
C5_Witness ==
    /\ SubsetReturned /\ ~args.full_rows
    /\ Len(ret.val.id) = 2
    /\ \E k \in 1..2 : ret.val.rowsize[k] < OriginalRowsize(args.ds, ret.val.id[k])

\* The relation of C6 between the results with full_rows=True and False.
FullRowsRelation(ds, full, partial) ==
    /\ full.tag = "ok" /\ partial.tag = "ok"
    /\ full.val.id = partial.val.id
    /\ \A k \in 1..Len(full.val.id) :
          full.val.rowsize[k] = OriginalRowsize(ds, full.val.id[k])
    /\ Len(full.val.temp) >= Len(partial.val.temp)

\* C6: for the same dataset and criteria, subset with full_rows=True and with
\* full_rows=False keep the same rows; with full_rows=True every surviving
\* row has its original size, so the result has at least as many
\* observations as with full_rows=False.
C6_FullRowsSameRows ==
    SubsetReturned =>
        IF args.full_rows
        THEN FullRowsRelation(args.ds, ret, subset(args.ds, args.criteria, FALSE))
        ELSE FullRowsRelation(args.ds, subset(args.ds, args.criteria, TRUE), ret)

\* full_rows=True brought back observations that the criteria had dropped.
C6_Witness ==
    /\ SubsetReturned /\ args.full_rows /\ Len(ret.val.id) = 2
    /\ Len(ret.val.temp) > Len(subset(args.ds, args.criteria, FALSE).val.temp)

\* C11: chunk rejects every call with length <= 0: for any x, any overlap and
\* any valid align, the call ends in an error and returns no array.
C11_NonPositiveLengthRejected ==
    (pc = "done" /\ args.op = "chunk" /\ args.length <= 0
        /\ args.align \in {"start", "middle", "end"})
        => ret.tag = "raise"

\* Every call with length < 0 does end in an error.
C11_NegativeLengthRejected ==
    (pc = "done" /\ args.op = "chunk" /\ args.length < 0) => ret.tag = "raise"

(***************************************************************************)
(* Claims about prune.                                                     *)
(***************************************************************************)
PruneCalled == pc = "done" /\ args.op = "prune" /\ np_sum(args.rowsize) = Len(args.ragged)

\* The rows of size >= min_rowsize and their sizes, in their original order.
LongRows ==
    LET offsets == rowsize_to_index(args.rowsize)
    IN  [flat |-> Concat([r \in 1..Len(args.rowsize) |->
                            IF args.rowsize[r] >= args.min_rowsize
                            THEN SubSeq(args.ragged, offsets[r] + 1, offsets[r + 1])
                            ELSE <<>>]),
         sizes |-> Concat([r \in 1..Len(args.rowsize) |->
                            IF args.rowsize[r] >= args.min_rowsize
                            THEN <<args.rowsize[r]>> ELSE <<>>])]

PruneReturnsLongRows ==
    /\ ret.tag = "ok"
    /\ ret.val[1] = LongRows.flat
    /\ ret.val[2] = LongRows.sizes
    /\ np_sum(ret.val[2]) = Len(ret.val[1])

\* C12 as stated: prune(ragged, rowsize, m) with sum(rowsize) == len(ragged)
\* returns the rows of size >= m and their sizes, in their original order,
\* for every rowsize.
C12_PruneAnyRowsize == PruneCalled => PruneReturnsLongRows

\* C12, amended: prune(ragged, rowsize, m) with sum(rowsize) == len(ragged)
\* and at least one row returns the rows of size >= m, concatenated in their
\* original order, and the subsequence of their sizes, so the sizes returned
\* sum to the length returned, also when no row or every row is dropped.
C12_PruneKeepsLongRows ==
    (PruneCalled /\ Len(args.rowsize) > 0) => PruneReturnsLongRows

\* A row is dropped and a later row is kept.
C12_Witness ==
    /\ PruneCalled /\ ret.tag = "ok"
    /\ \E r, q \in 1..Len(args.rowsize) :
          /\ r < q
          /\ args.rowsize[r] < args.min_rowsize
          /\ args.rowsize[q] >= args.min_rowsize /\ args.rowsize[q] > 0

(***************************************************************************)
(* obs_index_to_row.  An index is a Python int, a list, or a NumPy array;  *)
(* its entries are integers or halves, an entry being written as twice its *)
(* value so that 3 stands for 1.5.  An entry that is a whole number is an  *)
(* int (an integer dtype in an array), any other is a float.               *)
(***************************************************************************)
IsInt(twice) == twice % 2 = 0

\* int(i): the value truncated towards zero.
PyInt(twice) == IF twice >= 0 THEN twice \div 2 ELSE 0 - ((0 - twice) \div 2)

IntScalar(twice) == [container |-> "scalar", items |-> <<twice>>]
IndexList(items) == [container |-> "list", items |-> items]
IndexArray(items) == [container |-> "ndarray", items |-> items]

\* A variant that counts the offsets below the index only (side="left").
SearchSortedLeft(a, v) == Cardinality({j \in 1..Len(a) : a[j] < v})

\* np.searchsorted(a, v, side="right") for a sorted a: the number of entries
\* that are not above v.
np_searchsorted(a, v) == Cardinality({j \in 1..Len(a) : a[j] <= v})

\* Lines 908-914: the rows of a list of ints.
RowsOfIndexList(index_list, rowsize) ==
    LET rowsize_index == rowsize_to_index(rowsize)
    IN  IF \E k \in 1..Len(index_list) :
              \/ index_list[k] < rowsize_index[1]
              \/ index_list[k] >= rowsize_index[Len(rowsize_index)]
        THEN Raise("ValueError")
        ELSE Return([k \in 1..Len(index_list) |->
                        np_searchsorted(rowsize_index, index_list[k]) - 1])

\* Lines 894-914.  The entries of an array are converted with int(); a scalar
\* that is not an int is taken for a list and cannot be iterated; the entries
\* of a list must be ints.
obs_index_to_row(index, rowsize) ==
    CASE index.container = "ndarray" ->
            RowsOfIndexList([k \in 1..Len(index.items) |-> PyInt(index.items[k])], rowsize)
      [] index.container = "scalar" /\ ~IsInt(index.items[1]) -> Raise("TypeError")
      [] OTHER ->
            IF \E k \in 1..Len(index.items) : ~IsInt(index.items[k])
            THEN Raise("ValueError")
            ELSE RowsOfIndexList([k \in 1..Len(index.items) |-> index.items[k] \div 2],
                                 rowsize)

CallObsIndexToRow ==
    /\ pc = "call" /\ args.op = "obs_index_to_row"
    /\ ret' = obs_index_to_row(args.index, args.rowsize)
    /\ pc' = "done"
    /\ UNCHANGED <<args, futures, res, overtook>>

\* The entries tried for a ragged array of n observations: the halves from
\* -1 to n + 1/2.
IndexEntries(n) == (0 - 2)..(2 * n + 1)

\* A scalar, and the lists and arrays of at most two entries.
Indices(n) ==
    {IntScalar(t) : t \in IndexEntries(n)}
    \cup {IndexList(items) : items \in SeqsUpTo(IndexEntries(n), 2)}
    \cup {IndexArray(items) : items \in SeqsUpTo(IndexEntries(n), 2)}

InitIndex ==
    /\ \E rowsize \in RowSizes :
          \E index \in Indices(np_sum(rowsize)) :
             args = [op |-> "obs_index_to_row", index |-> index, rowsize |-> rowsize]
    /\ pc = "call"
    /\ ret = NoRet
    /\ Idle

NextIndex == CallObsIndexToRow

SpecIndex == InitIndex /\ [][NextIndex]_vars

(***************************************************************************)
(* Claims about obs_index_to_row.                                          *)
(***************************************************************************)
IndexCalled == pc = "done" /\ args.op = "obs_index_to_row"

\* The value of entry k, when it is a whole number.
IndexValue(k) == args.index.items[k] \div 2

ValidIndex(k) ==
    /\ IsInt(args.index.items[k])
    /\ IndexValue(k) >= 0
    /\ IndexValue(k) < np_sum(args.rowsize)

\* C13: for every rowsize (rows of size zero allowed) and every index i with
\* 0 <= i < sum(rowsize), obs_index_to_row returns the row r with
\* offsets[r] <= i < offsets[r+1], offsets = rowsize_to_index(rowsize); the
\* row returned is never an empty row and is non-decreasing in i.
C13_RowContainsIndex ==
    (IndexCalled /\ \A k \in 1..Len(args.index.items) : ValidIndex(k))
        => /\ ret.tag = "ok"
           /\ Len(ret.val) = Len(args.index.items)
           /\ \A k \in 1..Len(ret.val) :
                 LET offsets == rowsize_to_index(args.rowsize)
                     r == ret.val[k]
                 IN  /\ r >= 0 /\ r < Len(args.rowsize)
                     /\ offsets[r + 1] <= IndexValue(k)
                     /\ IndexValue(k) < offsets[r + 2]
                     /\ args.rowsize[r + 1] > 0
           /\ \A k, l \in 1..Len(ret.val) :
                 IndexValue(k) <= IndexValue(l) => ret.val[k] <= ret.val[l]

\* Two different indices that follow an empty first row.
C13_Witness ==
    /\ IndexCalled /\ ret.tag = "ok" /\ Len(ret.val) = 2
    /\ ValidIndex(1) /\ ValidIndex(2)
    /\ args.index.items[1] # args.index.items[2]
    /\ args.rowsize[1] = 0 /\ ret.val[1] = 1

\* C14: obs_index_to_row fails and returns no rows whenever an index is below
\* 0, at or above the total length, or not integral, whatever container the
\* indices are passed in.
C14_InvalidIndexRejected ==
    (IndexCalled /\ \E k \in 1..Len(args.index.items) : ~ValidIndex(k))
        => ret.tag = "raise"

\* Integral indices out of bounds are rejected in every container, and so is
\* every invalid index that comes as a scalar or in a list.
C14_RejectedUnlessFractionInArray ==
    (/\ IndexCalled
     /\ \E k \in 1..Len(args.index.items) : ~ValidIndex(k)
     /\ \/ args.index.container # "ndarray"
        \/ \A k \in 1..Len(args.index.items) : IsInt(args.index.items[k]))
        => ret.tag = "raise"

(***************************************************************************)
(* Claims about the conversion to a regular array and back.                *)
(***************************************************************************)
\* A and R fit and the fill value is not an element of A.
RoundTripPrecondition ==
    /\ np_sum(args.rowsize) = Len(args.ragged)
    /\ \A i \in 1..Len(args.ragged) : args.ragged[i] # args.fill_value

RoundTripHolds ==
    /\ (pc = "done" /\ args.op = "ragged_to_regular") => ret.tag = "ok"
    /\ (pc = "done" /\ args.op = "regular_to_ragged")
          => (ret.tag = "ok" /\ ret.val = <<args.ragged, args.rowsize>>)

\* C15: for all flat arrays A and row sizes R with sum(R) == len(A) (rows of
\* size zero and R with no rows included) and every fill value V that is not
\* an element of A, regular_to_ragged(ragged_to_regular(A, R, V), V) returns
\* exactly (A, R).
C15_RoundTrip ==
    (args.op \in {"ragged_to_regular", "regular_to_ragged"} /\ RoundTripPrecondition)
        => RoundTripHolds

\* The round trip returns (A, R) whenever R has at least one row.
C15_RoundTripWithRows ==
    (/\ args.op \in {"ragged_to_regular", "regular_to_ragged"}
     /\ RoundTripPrecondition /\ Len(args.rowsize) > 0)
        => RoundTripHolds

(***************************************************************************)
(* Claims about rowsize_to_index.                                          *)
(***************************************************************************)
\* C16: for every rowsize R of non-negative integers (the empty one included,
\* which yields [0]), rowsize_to_index(R) has len(R)+1 entries, starts at 0,
\* entry i is entry i-1 plus R[i-1], ends at sum(R), and never decreases.
C16_OffsetsArePrefixSums ==
    (pc = "done" /\ args.op = "rowsize_to_index")
        => /\ ret.tag = "ok"
           /\ Len(ret.val) = Len(args.rowsize) + 1
           /\ ret.val[1] = 0
           /\ \A i \in 1..Len(args.rowsize) : ret.val[i + 1] = ret.val[i] + args.rowsize[i]
           /\ ret.val[Len(ret.val)] = np_sum(args.rowsize)
           /\ \A i, j \in 1..Len(ret.val) : i <= j => ret.val[i] <= ret.val[j]
           /\ (args.rowsize = <<>> => ret.val = <<0>>)

\* Two rows, the first of them empty.
C16_Witness ==
    /\ pc = "done" /\ args.op = "rowsize_to_index"
    /\ Len(args.rowsize) = 2 /\ args.rowsize[1] = 0 /\ args.rowsize[2] > 0
    /\ ret.val = <<0, 0, args.rowsize[2]>>

(***************************************************************************)
(* Claims about blocking.                                                  *)
(***************************************************************************)
Unfinished(k) == futures[k].state # "done"

\* C17 as stated: apply_ragged neither returns nor raises while a task it
\* submitted is still unfinished.
C17_CompletesAfterEveryTask ==
    (pc = "done" /\ ret.tag # "none") => \A k \in 1..Len(futures) : ~Unfinished(k)

\* The tasks whose result the call has awaited when it completes: every task
\* when it returns, the tasks up to the failing one when a task's error ends it.
AwaitedByCompletion ==
    IF ret.tag = "raise" /\ ret.exc = "FuncError" THEN 1..ret.task ELSE 1..Len(futures)

\* C17, amended: apply_ragged never returns a value while a task it submitted
\* is unfinished, and it raises the error of a task only after that task and
\* every task submitted before it have finished and had their results
\* retrieved, in submission order; tasks submitted after the failing one may
\* still be unfinished.
C17_CompletesAfterAwaitedTasks ==
    /\ (pc = "done" /\ ret.tag # "none")
          => \A k \in AwaitedByCompletion : ~Unfinished(k) /\ futures[k].taken
    /\ (pc = "collect" /\ Len(res) < Len(futures) /\ Unfinished(Len(res) + 1))
          => ~ENABLED Retrieve

\* The call returned although its second task had finished first: it waited
\* for the first one.
C17_Witness ==
    /\ pc = "done" /\ ret.tag = "ok"
    /\ Len(futures) = 2 /\ overtook
    /\ \A k \in 1..2 : futures[k].taken

(***************************************************************************)
(* Claims about the propagation of the masks in subset.                    *)
(***************************************************************************)
\* Entry k of a variable satisfies a range, a list or a scalar criterion, by
\* its value.
Satisfies(values, k, criterion) ==
    CASE criterion.kind = "tuple" -> criterion.lo <= values[k] /\ values[k] <= criterion.hi
      [] criterion.kind = "list" -> values[k] \in criterion.values
      [] OTHER -> values[k] = criterion.lo

\* The entries of a variable that satisfy a criterion, as a mask: for a
\* predicate, the mask of the criterion's evaluation.
ByValue(values, criterion, rowsize) ==
    IF criterion.kind = "callable" THEN mask_var(values, criterion, rowsize).val
    ELSE [k \in 1..Len(values) |-> Satisfies(values, k, criterion)]

\* One such mask per criterion of the call, with its dimension.
ValueMasks ==
    [n \in 1..Len(args.criteria) |->
        [dim |-> DsVar(args.ds, args.criteria[n].key).dim,
         mask |-> ByValue(DsVar(args.ds, args.criteria[n].key).values,
                          args.criteria[n].criterion, args.ds.rowsize)]]

\* Entry k of dimension dim satisfies every criterion of that dimension.
PassAll(masks, dim, k) ==
    \A n \in 1..Len(masks) : masks[n].dim = dim => masks[n].mask[k]

SatisfiesAll(dim, k) == PassAll(ValueMasks, dim, k)

ObsOfRow(i) ==
    (rowsize_to_index(args.ds.rowsize)[i] + 1)..rowsize_to_index(args.ds.rowsize)[i + 1]

ExpectedRowsOf(masks) ==
    {i \in 1..Len(args.ds.id) :
        PassAll(masks, "rows", i) /\ \E j \in ObsOfRow(i) : PassAll(masks, "obs", j)}

ExpectedObsOf(masks) ==
    {j \in 1..Len(args.ds.temp) :
        PassAll(masks, "obs", j)
        /\ \E i \in 1..Len(args.ds.id) : j \in ObsOfRow(i) /\ PassAll(masks, "rows", i)}

ExpectedRows == ExpectedRowsOf(ValueMasks)

ExpectedObs == ExpectedObsOf(ValueMasks)

\* The entries of a variable at the positions of a set, in their order.
Restricted(values, positions) ==
    Concat([k \in 1..Len(values) |-> IF k \in positions THEN <<values[k]>> ELSE <<>>])

Reversed(s) == [k \in 1..Len(s) |-> s[Len(s) + 1 - k]]

\* Every criterion names a variable or a dimension and evaluates to a mask.
CriteriaEvaluate(masks) == masks.tag = "ok"

SameOutcome(a, b) == a = b

\* C18: with full_rows=False, subset keeps a row if and only if it satisfies
\* every row-level criterion and one of its observations satisfies every
\* observation-level criterion, and keeps an observation if and only if it
\* satisfies every observation-level criterion and its row every row-level
\* criterion; a row without a surviving observation (a row of size zero
\* included) is never in the result, and the outcome is the same with the
\* criteria listed in the reverse order.
C18_MasksPropagate ==
    (pc = "done" /\ args.op = "subset" /\ ~args.full_rows)
        => /\ SameOutcome(ret, subset(args.ds, Reversed(args.criteria), FALSE))
           /\ CriteriaEvaluate(FoldCriteria(args.ds, args.criteria))
                 => /\ ret.tag = "ok"
                    /\ \E rows \in {ExpectedRows} :
                          /\ {ret.val.id[k] : k \in 1..Len(ret.val.id)}
                                = {args.ds.id[i] : i \in rows}
                          /\ Len(ret.val.id) = Cardinality(rows)
                    /\ \E obs \in {ExpectedObs} :
                          ret.val.temp = Restricted(args.ds.temp, obs)
                    /\ \A k \in 1..Len(ret.val.id) :
                          /\ OriginalRowsize(args.ds, ret.val.id[k]) > 0
                          /\ ret.val.rowsize[k] > 0

\* A row that satisfies the row-level criteria is dropped because none of its
\* observations is left, while another row is kept with part of its
\* observations.
C18_Witness ==
    /\ SubsetReturned /\ ~args.full_rows /\ Len(args.criteria) = 2
    /\ Len(ret.val.id) = 1
    /\ ret.val.rowsize[1] < OriginalRowsize(args.ds, ret.val.id[1])
    /\ \E i \in 1..Len(args.ds.id) :
          /\ SatisfiesAll("rows", i) /\ args.ds.rowsize[i] > 0
          /\ args.ds.id[i] # ret.val.id[1]

(***************************************************************************)
(* Claims about the rows and row sizes of the subset.                      *)
(***************************************************************************)
\* The row (1-based) of the dataset that has the k-th identifier of the result.
OriginalRow(k) == CHOOSE i \in 1..Len(args.ds.id) : args.ds.id[i] = ret.val.id[k]

\* The observations of the dataset that survive: with full_rows those of the
\* surviving rows, otherwise those that pass the criteria of both dimensions.
SurvivingObs ==
    IF args.full_rows
    THEN {j \in 1..Len(args.ds.temp) : \E k \in 1..Len(ret.val.id) : j \in ObsOfRow(OriginalRow(k))}
    ELSE ExpectedObs

\* C19: in the dataset returned by subset the surviving rows keep their
\* original relative order, and entry k of the rewritten rowsize is the number
\* of surviving observations of the k-th surviving row, whatever the order of
\* the (distinct) identifiers.
C19_RowOrderAndCounts ==
    SubsetReturned
        => /\ \A k, l \in 1..Len(ret.val.id) : k < l => OriginalRow(k) < OriginalRow(l)
           /\ Len(ret.val.rowsize) = Len(ret.val.id)
           /\ \E surviving \in {SurvivingObs} :
                 /\ \A k \in 1..Len(ret.val.id) :
                       ret.val.rowsize[k]
                          = Cardinality(surviving \cap ObsOfRow(OriginalRow(k)))
                 /\ ret.val.temp = Restricted(args.ds.temp, surviving)

\* Identifiers in descending order; both rows survive, with different numbers
\* of observations, and one of them lost an observation.
C19_Witness ==
    /\ SubsetReturned /\ ~args.full_rows
    /\ args.ds.id = <<2, 1>> /\ ret.val.id = <<2, 1>>
    /\ ret.val.rowsize[1] # ret.val.rowsize[2]
    /\ np_sum(ret.val.rowsize) < Len(args.ds.temp)


(***************************************************************************)
(* C20: the evaluation of a predicate criterion.                           *)
(***************************************************************************)
\* The criteria of the call are one predicate on one variable.
OnePredicate ==
    /\ pc = "done" /\ args.op = "subset"
    /\ Len(args.criteria) = 1
    /\ args.criteria[1].criterion.kind = "callable"

\* The predicate called once on the whole variable.
WholeVariableMask(f, values) == Wrap(func(f, <<Array1(values)>>)).data

\* The predicate called once per row on that row's slice, the results
\* concatenated in row order.
PerRowMask(f, values, rowsize) ==
    Concat([i \in 1..Len(rowsize) |->
              WholeVariableMask(f, PySlice(values, rowsize_to_index(rowsize)[i],
                                           rowsize_to_index(rowsize)[i + 1]))])

\* The outcome of the call with the mask `mask` for the variable of dimension
\* dim: the length-mismatch error, or the subset the mask selects.
OutcomeOfMask(ds, dim, mask, full_rows) ==
    IF Len(mask) # Len(DsVar(ds, dim).values) THEN Raise("ValueError")
    ELSE SubsetByMasks(ds,
                       [tag |-> "ok",
                        mask_row |-> IF dim = "rows" THEN mask
                                     ELSE [i \in 1..Len(ds.id) |-> TRUE],
                        mask_obs |-> IF dim = "obs" THEN mask
                                     ELSE [j \in 1..Len(ds.temp) |-> TRUE]],
                       full_rows)

PredicateOutcome(ds, item, full_rows) ==
    IF DsVar(ds, item.key).dim = "rows"
    THEN OutcomeOfMask(ds, "rows",
                       WholeVariableMask(item.criterion.f, DsVar(ds, item.key).values),
                       full_rows)
    ELSE OutcomeOfMask(ds, "obs",
                       PerRowMask(item.criterion.f, DsVar(ds, item.key).values, ds.rowsize),
                       full_rows)

\* C20: for every ragged dataset, a predicate criterion on a row-dimension
\* variable is evaluated by one call on the whole variable, and on an
\* observation-dimension variable by one call per row on that row's slice,
\* the results concatenated in row order; a mask of another length than the
\* variable is the length-mismatch error.
C20_PredicatePerRow ==
    OnePredicate =>
        ret = PredicateOutcome(args.ds, args.criteria[1], args.full_rows)

\* The same, for the datasets whose number of observations differs from
\* their number of rows and for the row-dimension variables.
C20_PredicatePerRowUnlessAsManyObsAsRows ==
    (OnePredicate /\ (DsVar(args.ds, args.criteria[1].key).dim = "rows"
                      \/ Len(args.ds.temp) # Len(args.ds.rowsize)))
        => ret = PredicateOutcome(args.ds, args.criteria[1], args.full_rows)

====
